---------------------------- MODULE Spec2Model ----------------------------
(***************************************************************************)
(* Model of the guidance package "Generative AI model optimization using   *)
(* Amazon SageMaker":                                                      *)
(*   - the four notebooks under source/ (nb1 .. nb4), each a flat list of   *)
(*     code cells executed by one kernel against the SageMaker platform;   *)
(*   - the CloudFormation template deployment/awsgenaimodelopt.template.   *)
(* The notebooks are modelled statement by statement: every statement of   *)
(* every code cell is a record that names its source line, the names it    *)
(* binds, its receiver, the operation and the argument expressions.  The   *)
(* kernel issues a call, the platform answers (returns or raises), and the *)
(* kernel moves on to the next statement.                                  *)
(***************************************************************************)
EXTENDS Naturals, Sequences, FiniteSets, TLC

VARIABLES
  nb,                \* which notebook this kernel runs (1 .. 4)
  pc,                \* <<cell, statement>> of the next statement to execute
  status,            \* "running" | "done" | "failed"
  ns,                \* the kernel namespace: name -> value
  inflight,          \* the calls issued and not yet answered
  log,               \* history of call / return / raise events
  err,               \* the error shown by the failing cell ("" when none)
  others,            \* the kernels of the other open notebooks (a sequence)
  jobs,              \* optimization jobs on the platform (a sequence)
  models,            \* SageMaker models on the platform
  endpoint_configs,  \* endpoint configurations on the platform
  endpoints,         \* endpoints on the platform
  s3,                \* object prefixes written to the default bucket
  local_files,       \* directories written on the notebook instance
  params,            \* the stack's parameter values
  stack_status,      \* the stack's status
  resources,         \* the stack's created resources: logical id -> properties
  outputs            \* the stack's outputs: name -> value

nbvars == <<nb, pc, status, ns, inflight, log, err, others, jobs, models,
            endpoint_configs, endpoints, s3, local_files>>
stackvars == <<params, stack_status, resources, outputs>>
vars == <<nb, pc, status, ns, inflight, log, err, others, jobs, models,
          endpoint_configs, endpoints, s3, local_files,
          params, stack_status, resources, outputs>>

----------------------------------------------------------------------------
(* Argument expressions of the notebooks' statements.                      *)

Lit(v) == [k |-> "lit", v |-> v]
Var(n) == [k |-> "var", v |-> n]
\* string concatenation: a + "/" and the f-strings
Cat(parts) == [k |-> "cat", v |-> parts]
\* a dict display {"Key": expr, ...}
Dict(fields) == [k |-> "dict", v |-> fields]

RECURSIVE Eval(_, _)
RECURSIVE CatAll(_, _)
Eval(e, env) ==
  CASE e.k = "lit" -> e.v
    [] e.k = "var" -> env[e.v]
    [] e.k = "cat" -> CatAll(e.v, env)
    [] e.k = "dict" -> [f \in DOMAIN e.v |-> Eval(e.v[f], env)]
CatAll(parts, env) ==
  IF parts = <<>> THEN ""
  ELSE Eval(Head(parts), env) \o CatAll(Tail(parts), env)

RECURSIVE Names(_)
RECURSIVE NamesAll(_)
\* the names an expression reads
Names(e) ==
  CASE e.k = "lit" -> {}
    [] e.k = "var" -> {e.v}
    [] e.k = "cat" -> NamesAll(e.v)
    [] e.k = "dict" -> UNION {Names(e.v[f]) : f \in DOMAIN e.v}
NamesAll(parts) ==
  IF parts = <<>> THEN {} ELSE Names(Head(parts)) \cup NamesAll(Tail(parts))

NoArgs == <<>>

\* One statement: the source line it starts on, the names it binds, the name
\* it is called on (or calls), the operation, and the keyword arguments.
Stmt(line, def, recv, op, args) ==
  [line |-> line, def |-> def, recv |-> recv, op |-> op, args |-> args]

\* the names a statement reads
Uses(s) ==
  (IF s.recv = "" THEN {} ELSE {s.recv})
    \cup UNION {Names(s.args[a]) : a \in DOMAIN s.args}

----------------------------------------------------------------------------
(* The cells of the notebooks.  d is the line offset of the notebook file:  *)
(* the preamble of nb2 and nb3 sits one line lower than that of nb1, nb4.  *)

PipCell(d) ==
  << Stmt(44 + d, {}, "", "pip_install", NoArgs) >>

ImportCell(d) ==
  << Stmt(64 + d,
          {"boto3", "ModelBuilder", "SchemaBuilder", "Session", "logging",
           "huggingface_hub", "Path"},
          "", "import", NoArgs) >>

\* a setup cell that leaves the bucket name to be set elsewhere
SetupCellNoBucket(d) ==
  << Stmt(82 + d, {"sagemaker_session"}, "Session", "Session", NoArgs),
     Stmt(85 + d, {"execution_role_arn"}, "sagemaker_session",
          "get_caller_identity_arn", NoArgs),
     Stmt(87 + d, {"js_model_id"}, "", "assign",
          [value |-> Lit("meta-textgeneration-llama-3-70b")]),
     Stmt(88 + d, {"gpu_instance_type"}, "", "assign",
          [value |-> Lit("ml.p4d.24xlarge")]),
     Stmt(89 + d, {"neuron_instance_type"}, "", "assign",
          [value |-> Lit("ml.inf2.48xlarge")]) >>

SetupCell(d) ==
  << Stmt(82 + d, {"sagemaker_session"}, "Session", "Session", NoArgs),
     Stmt(84 + d, {"artifacts_bucket_name"}, "sagemaker_session",
          "default_bucket", NoArgs),
     Stmt(85 + d, {"execution_role_arn"}, "sagemaker_session",
          "get_caller_identity_arn", NoArgs),
     Stmt(87 + d, {"js_model_id"}, "", "assign",
          [value |-> Lit("meta-textgeneration-llama-3-70b")]),
     Stmt(88 + d, {"gpu_instance_type"}, "", "assign",
          [value |-> Lit("ml.p4d.24xlarge")]),
     Stmt(89 + d, {"neuron_instance_type"}, "", "assign",
          [value |-> Lit("ml.inf2.48xlarge")]) >>

\* 0.9 and 0.6 are kept as <<numerator, denominator>>
SchemaCell(d) ==
  << Stmt(101 + d, {"response"}, "", "assign",
          [value |-> Lit("Hello, I'm a language model, and I'm here to help you with your English.")]),
     Stmt(103 + d, {"sample_input"}, "", "assign",
          [value |-> Dict([inputs |-> Lit("Hello, I'm a language model,"),
                           parameters |-> Lit([max_new_tokens |-> 128,
                                               top_p |-> <<9, 10>>,
                                               temperature |-> <<6, 10>>])])]),
     Stmt(108 + d, {"sample_output"}, "", "assign",
          [value |-> Dict([generated_text |-> Var("response")])]),
     Stmt(110 + d, {"schema_builder"}, "SchemaBuilder", "SchemaBuilder",
          [sample_input |-> Var("sample_input"),
           sample_output |-> Var("sample_output")]) >>

Preamble(d) == << PipCell(d), ImportCell(d), SetupCell(d), SchemaCell(d) >>

\* nb1, nb2 and nb3 also pass log_level=logging.ERROR; nb4 does not
ModelBuilderCell(line, log_level) ==
  << Stmt(line, {"model_builder"}, "ModelBuilder", "ModelBuilder",
          IF log_level
          THEN [model |-> Var("js_model_id"),
                schema_builder |-> Var("schema_builder"),
                sagemaker_session |-> Var("sagemaker_session"),
                role_arn |-> Var("execution_role_arn"),
                log_level |-> Var("logging")]
          ELSE [model |-> Var("js_model_id"),
                schema_builder |-> Var("schema_builder"),
                sagemaker_session |-> Var("sagemaker_session"),
                role_arn |-> Var("execution_role_arn")]) >>

\* a predict cell that sends the prompt without the generation parameters
PredictCellPromptOnly(line) ==
  << Stmt(line, {}, "predictor", "predict",
          [data |-> Dict([inputs |-> Lit("Hello, I'm a language model,")])]) >>

\* a predict cell that invokes the endpoint through the runtime client,
\* without the predictor
PredictCellViaRuntime(line) ==
  << Stmt(line, {}, "boto3", "invoke_endpoint",
          [data |-> Var("sample_input")]) >>

PredictCell(line) ==
  << Stmt(line, {}, "predictor", "predict", [data |-> Var("sample_input")]) >>

\* a clean-up that forgets the model
CleanUpCellEndpointOnly(line) ==
  << Stmt(line + 1, {}, "predictor", "delete_endpoint",
          [delete_endpoint_config |-> Lit(TRUE)]) >>

\* a clean-up that deletes the endpoint first
CleanUpCellEndpointFirst(line) ==
  << Stmt(line + 1, {}, "predictor", "delete_endpoint",
          [delete_endpoint_config |-> Lit(TRUE)]),
     Stmt(line, {}, "predictor", "delete_model", NoArgs) >>

CleanUpCell(line) ==
  << Stmt(line, {}, "predictor", "delete_model", NoArgs),
     Stmt(line + 1, {}, "predictor", "delete_endpoint",
          [delete_endpoint_config |-> Lit(TRUE)]) >>

\* The values of an OverrideEnvironment mapping carry their Python type, so
\* that the string "24" and the number 24 are different values.
Str(s) == [type |-> "str", v |-> s]
Int(n) == [type |-> "int", v |-> n]

\* the optimize cells of nb2 (speculative decoding), nb3 (AWQ quantization)
\* and nb4 (Neuron compilation)
\* nb2's request given the upload's URI as it is, without the trailing slash
NB2OptimizeCellNoSlash ==
  << Stmt(221, {"optimized_model"}, "model_builder", "optimize",
          [instance_type |-> Var("gpu_instance_type"),
           accept_eula |-> Lit(TRUE),
           speculative_decoding_config |->
             Dict([ModelSource |-> Var("custom_draft_model_uri")])]) >>

NB2OptimizeCell ==
  << Stmt(221, {"optimized_model"}, "model_builder", "optimize",
          [instance_type |-> Var("gpu_instance_type"),
           accept_eula |-> Lit(TRUE),
           speculative_decoding_config |->
             Dict([ModelSource |-> Var("draft_uri")])]) >>

\* nb3's request without an output location
NB3OptimizeCellNoOutputPath ==
  << Stmt(173, {"optimized_model"}, "model_builder", "optimize",
          [instance_type |-> Var("gpu_instance_type"),
           accept_eula |-> Lit(TRUE),
           quantization_config |->
             Dict([OverrideEnvironment |->
                     Dict([OPTION_QUANTIZE |-> Lit(Str("awq"))])])]) >>

\* nb3's request asking for quantization and compilation at once
NB3OptimizeCellTwoKinds ==
  << Stmt(173, {"optimized_model"}, "model_builder", "optimize",
          [instance_type |-> Var("gpu_instance_type"),
           accept_eula |-> Lit(TRUE),
           quantization_config |->
             Dict([OverrideEnvironment |->
                     Dict([OPTION_QUANTIZE |-> Lit(Str("awq"))])]),
           compilation_config |->
             Dict([OverrideEnvironment |->
                     Dict([OPTION_DTYPE |-> Lit(Str("fp16"))])]),
           output_path |->
             Cat(<<Lit("s3://"), Var("artifacts_bucket_name"),
                   Lit("/awq-quantization/")>>)]) >>

NB3OptimizeCell ==
  << Stmt(173, {"optimized_model"}, "model_builder", "optimize",
          [instance_type |-> Var("gpu_instance_type"),
           accept_eula |-> Lit(TRUE),
           quantization_config |->
             Dict([OverrideEnvironment |->
                     Dict([OPTION_QUANTIZE |-> Lit(Str("awq"))])]),
           output_path |->
             Cat(<<Lit("s3://"), Var("artifacts_bucket_name"),
                   Lit("/awq-quantization/")>>)]) >>

\* nb4's request with the tensor-parallel degree and the context length
\* written as numbers
NB4OptimizeCellNumbers ==
  << Stmt(158, {"optimized_model"}, "model_builder", "optimize",
          [instance_type |-> Var("neuron_instance_type"),
           accept_eula |-> Lit(TRUE),
           compilation_config |->
             Dict([OverrideEnvironment |->
                     Dict([OPTION_TENSOR_PARALLEL_DEGREE |-> Lit(Int(24)),
                           OPTION_N_POSITIONS |-> Lit(Int(8192)),
                           OPTION_DTYPE |-> Lit(Str("fp16")),
                           OPTION_ROLLING_BATCH |-> Lit(Str("auto")),
                           OPTION_MAX_ROLLING_BATCH_SIZE |-> Lit(Str("4")),
                           OPTION_NEURON_OPTIMIZE_LEVEL |-> Lit(Str("2"))])]),
           output_path |->
             Cat(<<Lit("s3://"), Var("artifacts_bucket_name"),
                   Lit("/neuron/")>>)]) >>

\* nb4's request with its output under the prefix nb3 writes to
NB4OptimizeCellSharedPrefix ==
  << Stmt(158, {"optimized_model"}, "model_builder", "optimize",
          [instance_type |-> Var("neuron_instance_type"),
           accept_eula |-> Lit(TRUE),
           compilation_config |->
             Dict([OverrideEnvironment |->
                     Dict([OPTION_TENSOR_PARALLEL_DEGREE |-> Lit(Str("24")),
                           OPTION_N_POSITIONS |-> Lit(Str("8192")),
                           OPTION_DTYPE |-> Lit(Str("fp16")),
                           OPTION_ROLLING_BATCH |-> Lit(Str("auto")),
                           OPTION_MAX_ROLLING_BATCH_SIZE |-> Lit(Str("4")),
                           OPTION_NEURON_OPTIMIZE_LEVEL |-> Lit(Str("2"))])]),
           output_path |->
             Cat(<<Lit("s3://"), Var("artifacts_bucket_name"),
                   Lit("/awq-quantization/")>>)]) >>

NB4OptimizeCell ==
  << Stmt(158, {"optimized_model"}, "model_builder", "optimize",
          [instance_type |-> Var("neuron_instance_type"),
           accept_eula |-> Lit(TRUE),
           compilation_config |->
             Dict([OverrideEnvironment |->
                     Dict([OPTION_TENSOR_PARALLEL_DEGREE |-> Lit(Str("24")),
                           OPTION_N_POSITIONS |-> Lit(Str("8192")),
                           OPTION_DTYPE |-> Lit(Str("fp16")),
                           OPTION_ROLLING_BATCH |-> Lit(Str("auto")),
                           OPTION_MAX_ROLLING_BATCH_SIZE |-> Lit(Str("4")),
                           OPTION_NEURON_OPTIMIZE_LEVEL |-> Lit(Str("2"))])]),
           output_path |->
             Cat(<<Lit("s3://"), Var("artifacts_bucket_name"),
                   Lit("/neuron/")>>)]) >>

NB1Cells ==
  Preamble(0) \o
  << ModelBuilderCell(138, TRUE),
     << Stmt(165, {}, "model_builder", "display_benchmark_metrics", NoArgs) >>,
     << Stmt(185, {}, "model_builder", "set_deployment_config",
             [config_name |-> Lit("lmi-optimized"),
              instance_type |-> Lit("ml.g5.48xlarge")]) >>,
     << Stmt(206, {}, "model_builder", "get_deployment_config", NoArgs) >>,
     << Stmt(227, {"optimized_model"}, "model_builder", "build", NoArgs) >>,
     << Stmt(240, {"predictor"}, "optimized_model", "deploy",
             [accept_eula |-> Lit(TRUE)]) >>,
     PredictCell(260),
     CleanUpCell(273) >>

NB2Cells ==
  Preamble(1) \o
  << << Stmt(134, {"custom_draft_model_id"}, "", "assign",
             [value |-> Lit("meta-llama/Meta-Llama-3-8B")]),
        Stmt(136, {"hf_local_download_dir"}, "Path", "cwd",
             [child |-> Lit("model_repo")]),
        Stmt(137, {}, "hf_local_download_dir", "mkdir",
             [exist_ok |-> Lit(TRUE)]),
        Stmt(139, {}, "huggingface_hub", "snapshot_download",
             [repo_id |-> Var("custom_draft_model_id"),
              revision |-> Lit("main"),
              local_dir |-> Var("hf_local_download_dir"),
              local_dir_use_symlinks |-> Lit(FALSE)]) >>,
     << Stmt(156, {"custom_draft_model_uri"}, "sagemaker_session",
             "upload_data",
             [path |-> Var("hf_local_download_dir"),
              bucket |-> Var("artifacts_bucket_name"),
              key_prefix |-> Lit("spec-dec-custom-draft-model")]) >>,
     << Stmt(172, {"draft_uri"}, "", "assign",
             [value |-> Cat(<<Var("custom_draft_model_uri"), Lit("/")>>)]) >>,
     << Stmt(183, {}, "", "aws_s3_ls", [uri |-> Var("draft_uri")]) >>,
     ModelBuilderCell(195, TRUE),
     NB2OptimizeCell,
     << Stmt(247, {"predictor"}, "optimized_model", "deploy",
             [accept_eula |-> Lit(TRUE)]) >>,
     PredictCell(267),
     CleanUpCell(280) >>

\* nb3 with the clean-up cell placed before the predict cell
NB3CellsCleanUpFirst ==
  Preamble(1) \o
  << ModelBuilderCell(143, TRUE),
     NB3OptimizeCell,
     << Stmt(202, {"quantized_instance_type"}, "", "assign",
             [value |-> Lit("ml.g5.12xlarge")]),
        Stmt(203, {"predictor"}, "optimized_model", "deploy",
             [instance_type |-> Var("quantized_instance_type"),
              accept_eula |-> Lit(TRUE)]) >>,
     CleanUpCell(232),
     PredictCell(221) >>

NB3Cells ==
  Preamble(1) \o
  << ModelBuilderCell(143, TRUE),
     NB3OptimizeCell,
     << Stmt(202, {"quantized_instance_type"}, "", "assign",
             [value |-> Lit("ml.g5.12xlarge")]),
        Stmt(203, {"predictor"}, "optimized_model", "deploy",
             [instance_type |-> Var("quantized_instance_type"),
              accept_eula |-> Lit(TRUE)]) >>,
     PredictCell(221),
     CleanUpCell(232) >>

\* nb4 with the deploy cell run a second time
NB4CellsDeployTwice ==
  Preamble(0) \o
  << ModelBuilderCell(133, FALSE),
     NB4OptimizeCell,
     << Stmt(192, {"predictor"}, "optimized_model", "deploy",
             [accept_eula |-> Lit(TRUE),
              model_data_download_timeout |-> Lit(3600),
              volume_size |-> Lit(512)]) >>,
     << Stmt(192, {"predictor"}, "optimized_model", "deploy",
             [accept_eula |-> Lit(TRUE),
              model_data_download_timeout |-> Lit(3600),
              volume_size |-> Lit(512)]) >>,
     PredictCell(210),
     CleanUpCell(221) >>

NB4Cells ==
  Preamble(0) \o
  << ModelBuilderCell(133, FALSE),
     NB4OptimizeCell,
     << Stmt(192, {"predictor"}, "optimized_model", "deploy",
             [accept_eula |-> Lit(TRUE),
              model_data_download_timeout |-> Lit(3600),
              volume_size |-> Lit(512)]) >>,
     PredictCell(210),
     CleanUpCell(221) >>

Notebooks == 1 .. 4

Cells(n) ==
  CASE n = 1 -> NB1Cells
    [] n = 2 -> NB2Cells
    [] n = 3 -> NB3Cells
    [] n = 4 -> NB4Cells

----------------------------------------------------------------------------
(* The kernel: one statement at a time, top to bottom.                     *)

\* statements the kernel executes by itself: no call leaves the kernel
LocalOps == {"assign", "import"}

\* the ! and % lines run a shell command: its failure prints and does not raise
ShellOps == {"pip_install", "aws_s3_ls"}

\* what the SDK raises when a call fails (quota, validation, anything else)
SDKErrors == {"ResourceLimitExceeded", "ValidationException"}

ConfigKinds ==
  {"speculative_decoding_config", "quantization_config", "compilation_config"}

\* what the environment answers to the session's queries
DefaultBucket == "sagemaker-us-east-1-111122223333"
CallerIdentityArn == "arn:aws:iam::111122223333:role/LLMAppsBlogIAMRole"
NotebookCwd == "/home/ec2-user/SageMaker/source"

Cur == Cells(nb)[pc[1]][pc[2]]

NextPc(n, p) ==
  IF p[2] < Len(Cells(n)[p[1]]) THEN <<p[1], p[2] + 1>> ELSE <<p[1] + 1, 1>>

Finished(n, p) == p[1] > Len(Cells(n))

\* the statement at pc is complete: go to the next one, or end the run
Proceed ==
  /\ pc' = NextPc(nb, pc)
  /\ status' = IF Finished(nb, NextPc(nb, pc)) THEN "done" ELSE "running"

\* name = value for every name the statement binds
Bind(s, v) ==
  ns' = [n \in DOMAIN ns \cup s.def |-> IF n \in s.def THEN v ELSE ns[n]]

Ev(ev, s, args, e) ==
  [ev |-> ev, nb |-> nb, line |-> s.line, op |-> s.op, args |-> args,
   error |-> e]

\* a kernel that does not wait for the call in flight
KernelNeverBlocks == TRUE

\* a statement is a blocking call: the kernel runs nothing else meanwhile
KernelIdle == inflight = {}

Ready ==
  /\ status = "running"
  /\ KernelIdle
  /\ Uses(Cur) \subseteq DOMAIN ns

EvalArgs(s) == [a \in DOMAIN s.args |-> Eval(s.args[a], ns)]

\* the arguments of the call in flight, as they were sent
LastCallIdx ==
  CHOOSE i \in 1 .. Len(log) :
    /\ log[i].ev = "call"
    /\ \A j \in (i + 1) .. Len(log) : log[j].ev # "call"
Sent == log[LastCallIdx].args

Pending(ops) ==
  /\ status = "running"
  /\ inflight # {}
  /\ Cur.op \in ops
  /\ [pos |-> pc, line |-> Cur.line, op |-> Cur.op] \in inflight

\* the call in flight returns: it leaves the set, the return is logged
Answered ==
  /\ inflight' = inflight \ {[pos |-> pc, line |-> Cur.line, op |-> Cur.op]}
  /\ log' = Append(log, Ev("return", Cur, NoArgs, ""))
  /\ err' = err
  /\ Proceed

NewJob(s, args) ==
  [line |-> s.line,
   kinds |-> ConfigKinds \cap DOMAIN args,
   instance_type |-> args.instance_type,
   output_path |-> IF "output_path" \in DOMAIN args THEN args.output_path ELSE "",
   state |-> "InProgress"]

\* assignments and imports
Assign ==
  /\ Ready
  /\ Cur.op \in LocalOps
  /\ Bind(Cur, IF Cur.op = "import" THEN "module" ELSE Eval(Cur.args.value, ns))
  /\ Proceed
  /\ UNCHANGED <<nb, inflight, log, err, jobs, models, endpoint_configs,
                 endpoints, s3, local_files>>
  /\ UNCHANGED <<others, stackvars>>

\* the kernel evaluates the arguments and makes the call; optimize submits
\* the optimization job and then waits for it
Issue ==
  /\ Ready
  /\ Cur.op \notin LocalOps
  /\ inflight' = inflight \cup {[pos |-> pc, line |-> Cur.line, op |-> Cur.op]}
  /\ log' = Append(log, Ev("call", Cur, EvalArgs(Cur), ""))
  /\ jobs' = IF Cur.op = "optimize"
             THEN Append(jobs, NewJob(Cur, EvalArgs(Cur)))
             ELSE jobs
  /\ UNCHANGED <<nb, pc, status, ns, err, models, endpoint_configs,
                 endpoints, s3, local_files>>
  /\ UNCHANGED <<others, stackvars>>

----------------------------------------------------------------------------
(* The platform's answers.                                                 *)

\* what a query of the session, a constructor or a display returns
Result(op, args, self) ==
  CASE op = "Session" -> "Session"
    [] op = "default_bucket" -> DefaultBucket
    [] op = "get_caller_identity_arn" -> CallerIdentityArn
    [] op = "SchemaBuilder" -> args
    [] op = "cwd" -> NotebookCwd \o "/" \o args.child
    [] OTHER -> ""

QueryOps ==
  {"pip_install", "aws_s3_ls", "Session", "default_bucket",
   "get_caller_identity_arn", "SchemaBuilder", "cwd",
   "display_benchmark_metrics", "get_deployment_config"}

ReturnQuery ==
  /\ Pending(QueryOps)
  /\ IF Cur.def = {} THEN ns' = ns ELSE Bind(Cur, Result(Cur.op, Sent, Cur.recv))
  /\ Answered
  /\ UNCHANGED <<nb, jobs, models, endpoint_configs, endpoints, s3, local_files>>
  /\ UNCHANGED <<others, stackvars>>

\* mkdir(exist_ok=True) and snapshot_download write under the local directory
ReturnLocalFiles ==
  /\ Pending({"mkdir", "snapshot_download"})
  /\ local_files' = local_files \cup
       {IF Cur.op = "mkdir" THEN ns[Cur.recv] ELSE Sent.local_dir}
  /\ Answered
  /\ UNCHANGED <<nb, ns, jobs, models, endpoint_configs, endpoints, s3>>
  /\ UNCHANGED <<others, stackvars>>

\* upload_data returns the S3 URI of the uploaded directory
ReturnUpload ==
  /\ Pending({"upload_data"})
  /\ s3' = s3 \cup {"s3://" \o Sent.bucket \o "/" \o Sent.key_prefix}
  /\ Bind(Cur, "s3://" \o Sent.bucket \o "/" \o Sent.key_prefix)
  /\ Answered
  /\ UNCHANGED <<nb, jobs, models, endpoint_configs, endpoints, local_files>>
  /\ UNCHANGED <<others, stackvars>>

\* the model handle: no deployment configuration and no instance type yet
ReturnModelBuilder ==
  /\ Pending({"ModelBuilder"})
  /\ Bind(Cur, [model |-> Sent.model, config_name |-> "", instance_type |-> ""])
  /\ Answered
  /\ UNCHANGED <<nb, jobs, models, endpoint_configs, endpoints, s3, local_files>>
  /\ UNCHANGED <<others, stackvars>>

\* set_deployment_config records the configuration and the instance type
\* on the model handle
ReturnSetDeploymentConfig ==
  /\ Pending({"set_deployment_config"})
  /\ ns' = [ns EXCEPT ![Cur.recv] =
              [@ EXCEPT !.config_name = Sent.config_name,
                        !.instance_type = Sent.instance_type]]
  /\ Answered
  /\ UNCHANGED <<nb, jobs, models, endpoint_configs, endpoints, s3, local_files>>
  /\ UNCHANGED <<others, stackvars>>

\* build() returns the model of the handle's deployment configuration: the
\* artifacts are the ones JumpStart published for that configuration
ReturnBuild ==
  /\ Pending({"build"})
  /\ Bind(Cur, [model_id |-> ns[Cur.recv].model,
                src |-> "jumpstart",
                ref |-> ns[Cur.recv].config_name,
                job |-> 0,
                instance_type |-> ns[Cur.recv].instance_type])
  /\ Answered
  /\ UNCHANGED <<nb, jobs, models, endpoint_configs, endpoints, s3, local_files>>
  /\ UNCHANGED <<others, stackvars>>

\* the optimization job of the waiting optimize call ends
JobCompletes ==
  /\ Pending({"optimize"})
  /\ jobs # <<>>
  /\ jobs[Len(jobs)].state = "InProgress"
  /\ jobs' = [jobs EXCEPT ![Len(jobs)].state = "Completed"]
  /\ s3' = IF jobs[Len(jobs)].output_path = "" THEN s3
           ELSE s3 \cup {jobs[Len(jobs)].output_path}
  /\ UNCHANGED <<nb, pc, status, ns, inflight, log, err, models,
                 endpoint_configs, endpoints, local_files>>
  /\ UNCHANGED <<others, stackvars>>

JobFails ==
  /\ Pending({"optimize"})
  /\ jobs # <<>>
  /\ jobs[Len(jobs)].state = "InProgress"
  /\ jobs' = [jobs EXCEPT ![Len(jobs)].state = "Failed"]
  /\ UNCHANGED <<nb, pc, status, ns, inflight, log, err, models,
                 endpoint_configs, endpoints, s3, local_files>>
  /\ UNCHANGED <<others, stackvars>>

\* optimize() returning as soon as the job is submitted
ReturnOptimizeWithoutWaiting ==
  /\ Pending({"optimize"})
  /\ Bind(Cur, [model_id |-> ns[Cur.recv].model,
                src |-> "job",
                ref |-> jobs[Len(jobs)].output_path,
                job |-> Len(jobs),
                instance_type |-> Sent.instance_type])
  /\ Answered
  /\ UNCHANGED <<nb, jobs, models, endpoint_configs, endpoints, s3, local_files>>
  /\ UNCHANGED <<others, stackvars>>

\* optimize() returns once its job is complete: the model of the job's output
ReturnOptimize ==
  /\ Pending({"optimize"})
  /\ jobs[Len(jobs)].state = "Completed"
  /\ Bind(Cur, [model_id |-> ns[Cur.recv].model,
                src |-> "job",
                ref |-> jobs[Len(jobs)].output_path,
                job |-> Len(jobs),
                instance_type |-> Sent.instance_type])
  /\ Answered
  /\ UNCHANGED <<nb, jobs, models, endpoint_configs, endpoints, s3, local_files>>
  /\ UNCHANGED <<others, stackvars>>

\* a deployment that falls back on a fixed default instance type
DeployInstanceTypeDefault(args, model) ==
  IF "instance_type" \in DOMAIN args THEN args.instance_type
  ELSE "ml.m5.xlarge"

\* the instance type of a deployment: the one the call names, else the one
\* the model carries
DeployInstanceType(args, model) ==
  IF "instance_type" \in DOMAIN args THEN args.instance_type
  ELSE model.instance_type

\* a deploy() that compiles the model again for each deployment
ReturnDeployCompiles ==
  /\ Pending({"deploy"})
  /\ LET name == LastCallIdx
         m == ns[Cur.recv]
     IN /\ jobs' = IF jobs = <<>> THEN jobs
                   ELSE Append(jobs, [jobs[Len(jobs)] EXCEPT !.line = Cur.line])
        /\ models' = models \cup
             {[name |-> name, model_id |-> m.model_id, src |-> m.src,
               ref |-> m.ref,
               job |-> IF jobs = <<>> THEN m.job ELSE Len(jobs) + 1]}
        /\ endpoint_configs' = endpoint_configs \cup
             {[name |-> name, model |-> name,
               instance_type |-> DeployInstanceType(Sent, m)]}
        /\ endpoints' = endpoints \cup {[name |-> name, config |-> name]}
        /\ Bind(Cur, [endpoint |-> name])
  /\ Answered
  /\ UNCHANGED <<nb, s3, local_files>>
  /\ UNCHANGED <<others, stackvars>>

\* deploy() creates the model, the endpoint configuration and the endpoint,
\* and returns a predictor bound to the endpoint
ReturnDeploy ==
  /\ Pending({"deploy"})
  /\ LET name == LastCallIdx
         m == ns[Cur.recv]
     IN /\ models' = models \cup
             {[name |-> name, model_id |-> m.model_id, src |-> m.src,
               ref |-> m.ref, job |-> m.job]}
        /\ endpoint_configs' = endpoint_configs \cup
             {[name |-> name, model |-> name,
               instance_type |-> DeployInstanceType(Sent, m)]}
        /\ endpoints' = endpoints \cup {[name |-> name, config |-> name]}
        /\ Bind(Cur, [endpoint |-> name])
  /\ Answered
  /\ UNCHANGED <<nb, jobs, s3, local_files>>
  /\ UNCHANGED <<others, stackvars>>

EndpointOf(p) == {e \in endpoints : e.name = p.endpoint}
ConfigOf(p) ==
  {c \in endpoint_configs : \E e \in EndpointOf(p) : e.config = c.name}
ModelOf(p) == {m \in models : \E c \in ConfigOf(p) : c.model = m.name}

\* predict() is answered by the predictor's endpoint
ReturnPredict ==
  /\ Pending({"predict"})
  /\ EndpointOf(ns[Cur.recv]) # {}
  /\ Answered
  /\ UNCHANGED <<nb, ns, jobs, models, endpoint_configs, endpoints, s3,
                 local_files>>
  /\ UNCHANGED <<others, stackvars>>

\* a delete_model() that also removes the model's artifacts from storage
ReturnDeleteModelAndArtifacts ==
  /\ Pending({"delete_model"})
  /\ ConfigOf(ns[Cur.recv]) # {}
  /\ models' = models \ ModelOf(ns[Cur.recv])
  /\ s3' = s3 \ {m.ref : m \in ModelOf(ns[Cur.recv])}
  /\ Answered
  /\ UNCHANGED <<nb, ns, jobs, endpoint_configs, endpoints, local_files>>
  /\ UNCHANGED <<others, stackvars>>

\* delete_model() deletes the models behind the endpoint's configuration
ReturnDeleteModel ==
  /\ Pending({"delete_model"})
  /\ ConfigOf(ns[Cur.recv]) # {}
  /\ models' = models \ ModelOf(ns[Cur.recv])
  /\ Answered
  /\ UNCHANGED <<nb, ns, jobs, endpoint_configs, endpoints, s3, local_files>>
  /\ UNCHANGED <<others, stackvars>>

\* delete_endpoint(delete_endpoint_config=...) deletes the endpoint and,
\* when asked to, its configuration
ReturnDeleteEndpoint ==
  /\ Pending({"delete_endpoint"})
  /\ EndpointOf(ns[Cur.recv]) # {}
  /\ endpoint_configs' =
       IF Sent.delete_endpoint_config
       THEN endpoint_configs \ ConfigOf(ns[Cur.recv])
       ELSE endpoint_configs
  /\ endpoints' = endpoints \ EndpointOf(ns[Cur.recv])
  /\ Answered
  /\ UNCHANGED <<nb, ns, jobs, models, s3, local_files>>
  /\ UNCHANGED <<others, stackvars>>

\* a raise that is caught and the call made again
RaiseCaughtAndRetried ==
  /\ Pending({"optimize", "deploy", "predict"})
  /\ \E e \in SDKErrors : log' = Append(log, Ev("raise", Cur, NoArgs, e))
  /\ inflight' = inflight \ {[pos |-> pc, line |-> Cur.line, op |-> Cur.op]}
  /\ UNCHANGED <<nb, pc, status, ns, err, jobs, models, endpoint_configs,
                 endpoints, s3, local_files>>
  /\ UNCHANGED <<others, stackvars>>

\* a raise with the clean-up in a finally clause: what the run deployed is
\* deleted before the cell ends with the error
RaiseThenCleanUp ==
  /\ Pending(QueryOps \cup
             {"mkdir", "snapshot_download", "upload_data", "ModelBuilder",
              "set_deployment_config", "build", "optimize", "deploy",
              "predict", "delete_model", "delete_endpoint"})
  /\ Cur.op \notin ShellOps
  /\ \E e \in SDKErrors :
       /\ log' = Append(log, Ev("raise", Cur, NoArgs, e))
       /\ err' = e
  /\ inflight' = inflight \ {[pos |-> pc, line |-> Cur.line, op |-> Cur.op]}
  /\ status' = "failed"
  /\ models' = {}
  /\ endpoint_configs' = {}
  /\ endpoints' = {}
  /\ UNCHANGED <<nb, pc, ns, jobs, s3, local_files>>
  /\ UNCHANGED <<others, stackvars>>

\* a call raises: nothing in the notebooks catches it, so the cell ends with
\* the error and the run stops there
Raise ==
  /\ Pending(QueryOps \cup
             {"mkdir", "snapshot_download", "upload_data", "ModelBuilder",
              "set_deployment_config", "build", "optimize", "deploy",
              "predict", "delete_model", "delete_endpoint"})
  /\ Cur.op \notin ShellOps
  /\ \E e \in SDKErrors :
       /\ log' = Append(log, Ev("raise", Cur, NoArgs, e))
       /\ err' = e
  /\ inflight' = inflight \ {[pos |-> pc, line |-> Cur.line, op |-> Cur.op]}
  /\ status' = "failed"
  /\ UNCHANGED <<nb, pc, ns, jobs, models, endpoint_configs, endpoints, s3,
                 local_files>>
  /\ UNCHANGED <<others, stackvars>>

----------------------------------------------------------------------------
(* A top-to-bottom run of one notebook in a fresh kernel.                  *)

NoParams == [SageMakerNotebookName |-> <<>>, SageMakerIAMRole |-> <<>>]

StackIdle ==
  /\ params = NoParams
  /\ stack_status = "NOT_CREATED"
  /\ resources = <<>>
  /\ outputs = <<>>

Init ==
  /\ nb \in Notebooks
  /\ pc = <<1, 1>>
  /\ status = "running"
  /\ ns = <<>>
  /\ inflight = {}
  /\ log = <<>>
  /\ err = ""
  /\ others = <<>>
  /\ jobs = <<>>
  /\ models = {}
  /\ endpoint_configs = {}
  /\ endpoints = {}
  /\ s3 = {}
  /\ local_files = {}
  /\ StackIdle

Next ==
  \/ Assign
  \/ Issue
  \/ ReturnQuery
  \/ ReturnLocalFiles
  \/ ReturnUpload
  \/ ReturnModelBuilder
  \/ ReturnSetDeploymentConfig
  \/ ReturnBuild
  \/ JobCompletes
  \/ JobFails
  \/ ReturnOptimize
  \/ ReturnDeploy
  \/ ReturnPredict
  \/ ReturnDeleteModel
  \/ ReturnDeleteEndpoint
  \/ Raise

Spec == Init /\ [][Next]_vars

FairSpec == Spec /\ WF_vars(Next)

----------------------------------------------------------------------------
(* The CloudFormation template: parameters.  A parameter value is a        *)
(* sequence of one-character strings.                                      *)

Lower ==
  {"a", "b", "c", "d", "e", "f", "g", "h", "i", "j", "k", "l", "m",
   "n", "o", "p", "q", "r", "s", "t", "u", "v", "w", "x", "y", "z"}
Digit == {"0", "1", "2", "3", "4", "5", "6", "7", "8", "9"}

\* regular expressions: a character class, a concatenation, a repetition
Class(cs) == [t |-> "class", cs |-> cs]
Then(l, r) == [t |-> "then", l |-> l, r |-> r]
Star(p) == [t |-> "star", p |-> p]

RECURSIVE Ends(_, _, _)
RECURSIVE StarEnds(_, _, _, _)
\* the positions at which a match of p that starts after s[1 .. i] can end
Ends(p, s, i) ==
  CASE p.t = "class" ->
         IF i < Len(s) /\ s[i + 1] \in p.cs THEN {i + 1} ELSE {}
    [] p.t = "then" -> UNION {Ends(p.r, s, j) : j \in Ends(p.l, s, i)}
    [] p.t = "star" -> StarEnds(p.p, s, {i}, {i})
StarEnds(p, s, frontier, seen) ==
  LET new == UNION {Ends(p, s, j) : j \in frontier} \ seen
  IN IF new = {} THEN seen ELSE StarEnds(p, s, new, seen \cup new)

\* CloudFormation accepts a value when the pattern matches all of it
Matches(p, s) == Len(s) \in Ends(p, s, 0)

\* "^[a-z0-9]([a-z0-9])*": lowercase letters and digits only
NotebookNamePatternNoHyphen ==
  Then(Class(Lower \cup Digit), Star(Class(Lower \cup Digit)))

\* "^[a-z0-9](-*[a-z0-9])*"
NotebookNamePattern ==
  Then(Class(Lower \cup Digit),
       Star(Then(Star(Class({"-"})), Class(Lower \cup Digit))))

NotebookNameMinLength == 1
NotebookNameMaxLength == 63

\* a default notebook name ending in a hyphen: "aws-llm-apps-blog-"
DefaultNotebookNameTrailingHyphen ==
  <<"a", "w", "s", "-", "l", "l", "m", "-", "a", "p", "p", "s", "-",
    "b", "l", "o", "g", "-">>

DefaultNotebookName ==
  <<"a", "w", "s", "-", "l", "l", "m", "-", "a", "p", "p", "s", "-",
    "b", "l", "o", "g">>
DefaultIAMRole ==
  <<"L", "L", "M", "A", "p", "p", "s", "B", "l", "o", "g", "I", "A", "M",
    "R", "o", "l", "e">>

\* the template with the constraints of the notebook name left out
TemplateParametersUnconstrained ==
  [SageMakerNotebookName |->
     [Type |-> "String",
      Default |-> DefaultNotebookName,
      MaxLength |-> NotebookNameMaxLength],
   SageMakerIAMRole |->
     [Type |-> "String",
      Default |-> DefaultIAMRole]]

TemplateParameters ==
  [SageMakerNotebookName |->
     [Type |-> "String",
      Default |-> DefaultNotebookName,
      MinLength |-> NotebookNameMinLength,
      MaxLength |-> NotebookNameMaxLength,
      AllowedPattern |-> NotebookNamePattern],
   SageMakerIAMRole |->
     [Type |-> "String",
      Default |-> DefaultIAMRole]]

\* a value passes the constraints its declaration states, and only those
ValidParam(decl, v) ==
  /\ "MinLength" \in DOMAIN decl => Len(v) >= decl.MinLength
  /\ "MaxLength" \in DOMAIN decl => Len(v) <= decl.MaxLength
  /\ "AllowedPattern" \in DOMAIN decl => Matches(decl.AllowedPattern, v)

ValidParams(ps) ==
  \A p \in DOMAIN TemplateParameters : ValidParam(TemplateParameters[p], ps[p])

----------------------------------------------------------------------------
(* The CloudFormation template: resources.                                 *)

TLit(v) == [k |-> "lit", v |-> v]
TRef(n) == [k |-> "ref", v |-> n]
TGetAtt(r, a) == [k |-> "getatt", v |-> r, a |-> a]
\* Fn::Sub: literal segments and ${...} variables, in order
TSub(segments) == [k |-> "sub", v |-> segments]
SubVar(n) == [var |-> n]
\* Fn::Join with the delimiter ""
TJoin(parts) == [k |-> "join", v |-> parts]

\* the pseudo parameters of the stack's account and region
PseudoParameters ==
  ("AWS::Region" :> "us-east-1") @@ ("AWS::AccountId" :> "111122223333")

RECURSIVE SubAll(_)
\* Fn::Sub replaces every ${name} by the value of name
SubAll(segments) ==
  IF segments = <<>> THEN ""
  ELSE (IF DOMAIN Head(segments) = {"var"}
        THEN PseudoParameters[Head(segments).var]
        ELSE Head(segments).lit) \o SubAll(Tail(segments))

Action(service, name) == [service |-> service, name |-> name]

RepositoryUrl ==
  "https://github.com/aws-solutions-library-samples/guidance-for-generative-ai-model-optimization-using-amazon-sagemaker"

CodeRepositoryProperties ==
  [GitConfig |-> TLit([RepositoryUrl |-> RepositoryUrl])]

\* the notebook instance given a role the template does not create
NotebookInstancePropertiesOtherRole ==
  [NotebookInstanceName |-> TRef("SageMakerNotebookName"),
   InstanceType |-> TLit("ml.t3.2xlarge"),
   RoleArn |-> TLit([service |-> "iam", resource |-> "role",
                     name |-> <<"a", "d", "m", "i", "n">>]),
   DefaultCodeRepository |-> TLit(RepositoryUrl)]

\* the notebook instance given the role of a resource the template lacks
NotebookInstancePropertiesUndeclaredRole ==
  [NotebookInstanceName |-> TRef("SageMakerNotebookName"),
   InstanceType |-> TLit("ml.t3.2xlarge"),
   RoleArn |-> TGetAtt("SageMakerRole", "Arn"),
   DefaultCodeRepository |-> TLit(RepositoryUrl)]

NotebookInstanceProperties ==
  [NotebookInstanceName |-> TRef("SageMakerNotebookName"),
   InstanceType |-> TLit("ml.t3.2xlarge"),
   RoleArn |-> TGetAtt("Role", "Arn"),
   DefaultCodeRepository |-> TLit(RepositoryUrl)]

\* "arn:aws:ecr:${AWS::Region}:${AWS::AccountId}:repository/*"
EcrRepositories ==
  TSub(<< [lit |-> "arn:aws:ecr:"], SubVar("AWS::Region"), [lit |-> ":"],
          SubVar("AWS::AccountId"), [lit |-> ":repository/*"] >>)

\* the statement ReadWriteFromECR of the inline policy CustomNotebookAccess
ReadWriteFromECR ==
  [Sid |-> "ReadWriteFromECR",
   Effect |-> "Allow",
   Action |->
     {Action("ecr", "BatchGetImage"),
      Action("ecr", "BatchCheckLayerAvailability"),
      Action("ecr", "CompleteLayerUpload"),
      Action("ecr", "DescribeImages"),
      Action("ecr", "DescribeRepositories"),
      Action("ecr", "GetDownloadUrlForLayer"),
      Action("ecr", "InitiateLayerUpload"),
      Action("ecr", "ListImages"),
      Action("ecr", "PutImage"),
      Action("ecr", "UploadLayerPart"),
      Action("ecr", "CreateRepository"),
      Action("ecr", "GetAuthorizationToken"),
      Action("ec2", "DescribeAvailabilityZones")},
   Resource |-> {SubAll(EcrRepositories.v)}]

RolePolicies ==
  {[PolicyName |-> "CustomNotebookAccess", Statement |-> {ReadWriteFromECR}]}

RoleManagedPolicyArns ==
  {"arn:aws:iam::aws:policy/AmazonSageMakerFullAccess",
   "arn:aws:iam::aws:policy/AWSCloudFormationReadOnlyAccess",
   "arn:aws:iam::aws:policy/TranslateReadOnly"}

\* a trust policy that also lets any principal of any account assume the role
AssumeRolePolicyDocumentAnyAccount ==
  [Statement |->
     {[Effect |-> "Allow",
       Principal |-> [Service |-> {"sagemaker.amazonaws.com"}],
       Action |-> {Action("sts", "AssumeRole")}],
      [Effect |-> "Allow",
       Principal |-> [AWS |-> {"*"}],
       Action |-> {Action("sts", "AssumeRole")}]}]

AssumeRolePolicyDocument ==
  [Statement |->
     {[Effect |-> "Allow",
       Principal |-> [Service |-> {"sagemaker.amazonaws.com"}],
       Action |-> {Action("sts", "AssumeRole")}]}]

RoleProperties ==
  [RoleName |-> TRef("SageMakerIAMRole"),
   Policies |-> TLit(RolePolicies),
   ManagedPolicyArns |-> TLit(RoleManagedPolicyArns),
   AssumeRolePolicyDocument |-> TLit(AssumeRolePolicyDocument)]

TemplateResources ==
  [CodeRepository |->
     [Type |-> "AWS::SageMaker::CodeRepository",
      Properties |-> CodeRepositoryProperties],
   NotebookInstance |->
     [Type |-> "AWS::SageMaker::NotebookInstance",
      Properties |-> NotebookInstanceProperties],
   Role |->
     [Type |-> "AWS::IAM::Role",
      Properties |-> RoleProperties]]

ConsoleUrl ==
  TSub(<< [lit |-> "https://console.aws.amazon.com/sagemaker/home?region="],
          SubVar("AWS::Region"),
          [lit |-> "#/notebook-instances/openNotebook/"] >>)

TemplateOutputs ==
  [SageMakerNotebookURL |->
     [Description |-> "SageMaker Notebook Instance",
      Value |-> TJoin(<< ConsoleUrl,
                         TGetAtt("NotebookInstance", "NotebookInstanceName"),
                         TLit("?view=classic") >>)]]

\* the ARN of the role of a given name
RoleArnOf(name) == [service |-> "iam", resource |-> "role", name |-> name]

\* Fn::GetAtt on a created resource
Attr(r, a) ==
  CASE r.Type = "AWS::IAM::Role" /\ a = "Arn" -> RoleArnOf(r.Properties.RoleName)
    [] r.Type = "AWS::SageMaker::NotebookInstance" /\ a = "NotebookInstanceName" ->
         r.Properties.NotebookInstanceName

RECURSIVE Resolve(_, _, _)
\* the value of a property or output, given the parameters and the resources
\* created; a joined value is kept as the sequence of its parts, because a
\* parameter value is a sequence of characters
Resolve(e, ps, rs) ==
  CASE e.k = "lit" -> e.v
    [] e.k = "ref" -> ps[e.v]
    [] e.k = "getatt" -> Attr(rs[e.v], e.a)
    [] e.k = "sub" -> SubAll(e.v)
    [] e.k = "join" -> [i \in DOMAIN e.v |-> Resolve(e.v[i], ps, rs)]

\* the resources a property's value is taken from
RefsOf(e) ==
  CASE e.k = "lit" -> {}
    [] e.k = "ref" -> {e.v} \cap DOMAIN TemplateResources
    [] e.k = "getatt" -> {e.v}

Deps(id) ==
  LET P == TemplateResources[id].Properties
  IN UNION {RefsOf(P[x]) : x \in DOMAIN P}

Physical(id, ps, rs) ==
  LET P == TemplateResources[id].Properties
  IN [Type |-> TemplateResources[id].Type,
      Properties |-> [x \in DOMAIN P |-> Resolve(P[x], ps, rs)]]

----------------------------------------------------------------------------
(* Creating the stack.                                                     *)

MaxRuns == 3

InputChars == {"a", "7", "-", "A"}
RunLens == {1, 2, NotebookNameMaxLength - 2}

RECURSIVE Rep(_, _)
Rep(c, n) == IF n = 0 THEN <<>> ELSE <<c>> \o Rep(c, n - 1)

RECURSIVE RunStrings(_)
\* the strings made of at most k runs of one character
RunStrings(k) ==
  IF k = 0 THEN {<<>>}
  ELSE LET shorter == RunStrings(k - 1)
       IN shorter \cup
            {s \o Rep(c, n) : s \in shorter, c \in InputChars, n \in RunLens}

\* values up to one character past MaxLength, and the default
NameInputs ==
  {s \in RunStrings(MaxRuns) : Len(s) <= NotebookNameMaxLength + 1}
    \cup {DefaultNotebookName}
RoleInputs == {<<>>, DefaultIAMRole, <<"m", "y", " ", "r", "o", "l", "e", "!">>}

\* CloudFormation validates the parameter values before it creates anything
CreateStack ==
  /\ stack_status = "NOT_CREATED"
  /\ \E name \in NameInputs, role \in RoleInputs :
       LET ps == [SageMakerNotebookName |-> name, SageMakerIAMRole |-> role]
       IN /\ params' = ps
          /\ stack_status' = IF ValidParams(ps) THEN "CREATE_IN_PROGRESS"
                             ELSE "VALIDATION_FAILED"
  /\ UNCHANGED <<resources, outputs>>
  /\ UNCHANGED nbvars

\* a resource is created once the resources it refers to exist
CreateResource ==
  /\ stack_status = "CREATE_IN_PROGRESS"
  /\ \E id \in DOMAIN TemplateResources \ DOMAIN resources :
       /\ Deps(id) \subseteq DOMAIN resources
       /\ resources' = [x \in DOMAIN resources \cup {id} |->
                          IF x = id THEN Physical(id, params, resources)
                          ELSE resources[x]]
  /\ UNCHANGED <<params, stack_status, outputs>>
  /\ UNCHANGED nbvars

\* a resource cannot be created (the name is taken, the service refuses
\* it): the stack rolls back
ResourceFails ==
  /\ stack_status = "CREATE_IN_PROGRESS"
  /\ DOMAIN resources # DOMAIN TemplateResources
  /\ stack_status' = "ROLLBACK_COMPLETE"
  /\ resources' = <<>>
  /\ UNCHANGED <<params, outputs>>
  /\ UNCHANGED nbvars

\* every resource exists: the outputs are evaluated and the stack is complete
CompleteStack ==
  /\ stack_status = "CREATE_IN_PROGRESS"
  /\ DOMAIN resources = DOMAIN TemplateResources
  /\ outputs' = [o \in DOMAIN TemplateOutputs |->
                   Resolve(TemplateOutputs[o].Value, params, resources)]
  /\ stack_status' = "CREATE_COMPLETE"
  /\ UNCHANGED <<params, resources>>
  /\ UNCHANGED nbvars

StackInit ==
  /\ StackIdle
  /\ nb = 1
  /\ pc = <<1, 1>>
  /\ status = "running"
  /\ ns = <<>>
  /\ inflight = {}
  /\ log = <<>>
  /\ err = ""
  /\ others = <<>>
  /\ jobs = <<>>
  /\ models = {}
  /\ endpoint_configs = {}
  /\ endpoints = {}
  /\ s3 = {}
  /\ local_files = {}

StackNext ==
  \/ CreateStack
  \/ CreateResource
  \/ ResourceFails
  \/ CompleteStack

StackSpec == StackInit /\ [][StackNext]_vars

----------------------------------------------------------------------------
(* Properties of a notebook run.                                           *)

CallsOf(ops) == {i \in 1 .. Len(log) : log[i].ev = "call" /\ log[i].op \in ops}
ReturnsOf(ops) ==
  {i \in 1 .. Len(log) : log[i].ev = "return" /\ log[i].op \in ops}
ReturnedBefore(ops, i) == \E j \in ReturnsOf(ops) : j < i

\* C1: in a top-to-bottom run the model handle is constructed, then the
\* optimized model is obtained (build or optimize), then deploy, then predict,
\* then the teardown: no call of a stage is issued before the stage before it
\* has returned, and a complete run has gone through all of them.
C1_CallOrder ==
  /\ \A i \in CallsOf({"build", "optimize"}) : ReturnedBefore({"ModelBuilder"}, i)
  /\ \A i \in CallsOf({"deploy"}) : ReturnedBefore({"build", "optimize"}, i)
  /\ \A i \in CallsOf({"predict"}) : ReturnedBefore({"deploy"}, i)
  /\ \A i \in CallsOf({"delete_model", "delete_endpoint"}) :
       ReturnedBefore({"predict"}, i)
  /\ status = "done" =>
       /\ ReturnsOf({"ModelBuilder"}) # {}
       /\ ReturnsOf({"build", "optimize"}) # {}
       /\ ReturnsOf({"deploy"}) # {}
       /\ ReturnsOf({"predict"}) # {}
       /\ ReturnsOf({"delete_model"}) # {}
       /\ ReturnsOf({"delete_endpoint"}) # {}

C1_Witness ==
  /\ status = "done"
  /\ nb = 3
  /\ ReturnsOf({"delete_endpoint"}) # {}

\* C2 as stated: every notebook has an optimize call that returned, with its
\* job complete, before its deploy call is issued.
C2_EveryNotebookOptimizes ==
  \A i \in CallsOf({"deploy"}) :
    /\ ReturnedBefore({"optimize"}, i)
    /\ jobs # <<>>
    /\ jobs[Len(jobs)].state = "Completed"

\* C2 amended: notebooks 2, 3 and 4 deploy only after their optimize call has
\* returned with its job complete, and the model they deploy is that job's
\* output; notebook 1 submits no optimization job and deploys the model that
\* build() returns for the configuration set with set_deployment_config.
C2_OptimizeBeforeDeploy ==
  \A i \in CallsOf({"deploy"}) :
    IF nb = 1
    THEN /\ jobs = <<>>
         /\ CallsOf({"optimize"}) = {}
         /\ ReturnedBefore({"build"}, i)
         /\ ns["optimized_model"].src = "jumpstart"
         /\ ns["optimized_model"].ref = "lmi-optimized"
    ELSE /\ ReturnedBefore({"optimize"}, i)
         /\ Len(jobs) = 1
         /\ jobs[1].state = "Completed"
         /\ ns["optimized_model"].src = "job"
         /\ ns["optimized_model"].job = 1

C2_Witness ==
  /\ nb = 2
  /\ endpoints # {}
  /\ \E m \in models : m.src = "job"

\* C3: a top-to-bottom run ends; it fails only where a call raised; and a run
\* in which no call raised ends with every cell executed, no error shown, and
\* the endpoint, the endpoint configuration and the model it created deleted.
C3_RunCompletesAndCleansUp ==
  /\ <>(status \in {"done", "failed"})
  /\ [](status = "failed" => \E i \in 1 .. Len(log) : log[i].ev = "raise")
  /\ [](status = "done" =>
          /\ Finished(nb, pc)
          /\ err = ""
          /\ inflight = {}
          /\ \A c \in 1 .. Len(Cells(nb)) : \A k \in 1 .. Len(Cells(nb)[c]) :
               Cells(nb)[c][k].op \notin LocalOps =>
                 \E i \in ReturnsOf({Cells(nb)[c][k].op}) :
                   log[i].line = Cells(nb)[c][k].line
          /\ ReturnsOf({"deploy"}) # {}
          /\ endpoints = {}
          /\ endpoint_configs = {}
          /\ models = {})

C3_Witness ==
  /\ status = "done"
  /\ ReturnsOf({"deploy"}) # {}
  /\ endpoints = {}
  /\ endpoint_configs = {}
  /\ models = {}

PlatformCallOps ==
  {"upload_data", "optimize", "build", "deploy", "predict", "delete_model",
   "delete_endpoint"}

\* C4: no platform call is issued twice in a run, and a call that raises ends
\* the run at that statement: the raise is the last event, the cell shows the
\* very error the SDK raised, and nothing is called in its place.
C4_NoCatchNoRetry ==
  /\ \A op \in PlatformCallOps : Cardinality(CallsOf({op})) <= 1
  /\ \A i \in 1 .. Len(log) :
       log[i].ev = "raise" =>
         /\ i = Len(log)
         /\ status = "failed"
         /\ err = log[i].error
         /\ err \in SDKErrors
         /\ log[i].line = Cur.line
         /\ log[i - 1].ev = "call"
         /\ log[i - 1].line = log[i].line
  /\ status = "failed" => Len(log) > 0 /\ log[Len(log)].ev = "raise"

C4_Witness ==
  /\ status = "failed"
  /\ log[Len(log)].op = "deploy"
  /\ err = "ResourceLimitExceeded"

\* C5: at most one call is in flight, and every call is answered (returns or
\* raises) before the next call is issued.
C5_OneCallAtATime ==
  /\ Cardinality(inflight) <= 1
  /\ \A i \in CallsOf(QueryOps \cup PlatformCallOps \cup
                      {"mkdir", "snapshot_download", "ModelBuilder",
                       "set_deployment_config"}) :
       /\ i = Len(log) => inflight # {}
       /\ i < Len(log) =>
            /\ log[i + 1].ev \in {"return", "raise"}
            /\ log[i + 1].line = log[i].line
  /\ inflight # {} => Len(log) > 0 /\ log[Len(log)].ev = "call"

C5_Witness ==
  /\ Cardinality(inflight) = 1
  /\ Cur.op = "predict"
  /\ endpoints # {}

PrerequisiteInstanceTypes == {"ml.p4d.24xlarge", "ml.inf2.48xlarge"}

\* C6: every optimization job and every endpoint runs on one of the two
\* instance types of the prerequisites.
C6_OnlyPrerequisiteInstanceTypes ==
  /\ \A j \in 1 .. Len(jobs) : jobs[j].instance_type \in PrerequisiteInstanceTypes
  /\ \A c \in endpoint_configs : c.instance_type \in PrerequisiteInstanceTypes

\* C7: notebook 1 deploys the configuration lmi-optimized, and its endpoint
\* runs on ml.p4d.24xlarge.
C7_NB1DeploysOnP4d ==
  nb = 1 =>
    /\ \A m \in models : m.src = "jumpstart" /\ m.ref = "lmi-optimized"
    /\ \A c \in endpoint_configs : c.instance_type = "ml.p4d.24xlarge"

----------------------------------------------------------------------------
(* Properties of the template.                                             *)

Attempted == stack_status # "NOT_CREATED"
NotebookName == params.SageMakerNotebookName
IAMRoleName == params.SageMakerIAMRole

\* C8 as stated: an empty value of either parameter and a notebook name that
\* does not match the pattern are rejected.
C8_BothParametersValidated ==
  Attempted =>
    ((\/ NotebookName = <<>>
      \/ IAMRoleName = <<>>
      \/ ~Matches(NotebookNamePattern, NotebookName))
       => stack_status = "VALIDATION_FAILED")

\* C8 amended: an empty notebook name and a notebook name that does not match
\* the pattern are rejected; the role name has no constraint, so a stack is
\* rejected at validation only for its notebook name, whatever the role name.
C8_OnlyNotebookNameValidated ==
  Attempted =>
    /\ ((NotebookName = <<>> \/ ~Matches(NotebookNamePattern, NotebookName))
          => stack_status = "VALIDATION_FAILED")
    /\ stack_status = "VALIDATION_FAILED" =>
         \/ Len(NotebookName) < NotebookNameMinLength
         \/ Len(NotebookName) > NotebookNameMaxLength
         \/ ~Matches(NotebookNamePattern, NotebookName)

C8_Witness ==
  /\ stack_status = "CREATE_IN_PROGRESS"
  /\ IAMRoleName = <<>>

CharsOf(s) == {s[i] : i \in 1 .. Len(s)}

EcrReadActions ==
  {Action("ecr", "BatchGetImage"), Action("ecr", "GetDownloadUrlForLayer"),
   Action("ecr", "BatchCheckLayerAvailability"), Action("ecr", "DescribeImages"),
   Action("ecr", "DescribeRepositories"), Action("ecr", "ListImages")}
EcrWriteActions ==
  {Action("ecr", "PutImage"), Action("ecr", "InitiateLayerUpload"),
   Action("ecr", "UploadLayerPart"), Action("ecr", "CompleteLayerUpload"),
   Action("ecr", "CreateRepository")}

\* the actions the inline policies of a created role allow
InlineAllowed(role) ==
  UNION {st.Action : st \in {x \in UNION {pol.Statement : pol \in role.Properties.Policies} :
                               x.Effect = "Allow"}}

\* the created roles whose ARN is the notebook instance's RoleArn
NotebookRoles ==
  {id \in DOMAIN resources :
     /\ resources[id].Type = "AWS::IAM::Role"
     /\ Attr(resources[id], "Arn") = resources["NotebookInstance"].Properties.RoleArn}

\* C10: the role the notebook instance runs under is the role the template
\* creates, and that role is allowed to read from and write to ECR by its
\* inline policy and carries the read-only managed policies of CloudFormation
\* and Translate (and no full-access policy or inline action for them).
C10_NotebookRolePolicy ==
  "NotebookInstance" \in DOMAIN resources =>
    /\ NotebookRoles = {"Role"}
    /\ \A id \in NotebookRoles :
         /\ EcrReadActions \subseteq InlineAllowed(resources[id])
         /\ EcrWriteActions \subseteq InlineAllowed(resources[id])
         /\ {"arn:aws:iam::aws:policy/AWSCloudFormationReadOnlyAccess",
             "arn:aws:iam::aws:policy/TranslateReadOnly"}
              \subseteq resources[id].Properties.ManagedPolicyArns
         /\ resources[id].Properties.ManagedPolicyArns \cap
              {"arn:aws:iam::aws:policy/AWSCloudFormationFullAccess",
               "arn:aws:iam::aws:policy/TranslateFullAccess"} = {}
         /\ \A a \in InlineAllowed(resources[id]) :
              a.service \notin {"cloudformation", "translate"}

C10_Witness ==
  /\ stack_status = "CREATE_COMPLETE"
  /\ "NotebookInstance" \in DOMAIN resources
  /\ "Role" \in DOMAIN resources

----------------------------------------------------------------------------
(* Properties of the requests a notebook sends.                            *)

\* C11 as stated: every optimization request names an output location, and
\* every optimization job has one.
C11_EveryRequestNamesOutput ==
  /\ \A i \in CallsOf({"optimize"}) : "output_path" \in DOMAIN log[i].args
  /\ \A j \in 1 .. Len(jobs) : jobs[j].output_path # ""

\* C11 amended: a quantization or compilation request names an output
\* location under the session's default bucket (awq-quantization/ in notebook
\* 3, neuron/ in notebook 4) and its job writes there; the speculative
\* decoding request of notebook 2 names no output location.
C11_QuantizeAndCompileNameOutput ==
  \A i \in CallsOf({"optimize"}) :
    LET a == log[i].args
    IN IF {"quantization_config", "compilation_config"} \cap DOMAIN a # {}
       THEN /\ nb \in {3, 4}
            /\ "output_path" \in DOMAIN a
            /\ a.output_path =
                 "s3://" \o DefaultBucket \o
                   (IF nb = 3 THEN "/awq-quantization/" ELSE "/neuron/")
            /\ jobs[Len(jobs)].output_path = a.output_path
            /\ jobs[Len(jobs)].state = "Completed" => a.output_path \in s3
       ELSE /\ nb = 2
            /\ "speculative_decoding_config" \in DOMAIN a
            /\ "output_path" \notin DOMAIN a
            /\ jobs[Len(jobs)].output_path = ""

C11_Witness ==
  /\ nb = 3
  /\ Len(jobs) = 1
  /\ jobs[1].state = "Completed"
  /\ jobs[1].output_path \in s3

\* the sample request of the schema cell
SampleRequest ==
  [inputs |-> "Hello, I'm a language model,",
   parameters |-> [max_new_tokens |-> 128,
                   top_p |-> <<9, 10>>,
                   temperature |-> <<6, 10>>]]

\* C12: a run issues at most one inference call, and exactly one when it runs
\* to its end; its payload is the sample request (prompt, max_new_tokens,
\* top_p, temperature) that was given to SchemaBuilder as the example input,
\* and sample_input keeps that value from the schema's construction on.
C12_OnePredictWithSampleInput ==
  /\ Cardinality(CallsOf({"predict"})) <= 1
  /\ status = "done" => Cardinality(CallsOf({"predict"})) = 1
  /\ \A j \in CallsOf({"SchemaBuilder"}) :
       /\ log[j].args.sample_input = SampleRequest
       /\ ns["sample_input"] = log[j].args.sample_input
  /\ \A i \in CallsOf({"predict"}) :
       /\ DOMAIN log[i].args = {"data"}
       /\ log[i].args.data = SampleRequest
       /\ \E j \in CallsOf({"SchemaBuilder"}) :
            /\ j < i
            /\ log[j].args.sample_input = log[i].args.data

C12_Witness ==
  /\ status = "done"
  /\ nb = 4
  /\ \E i \in ReturnsOf({"predict"}) : log[i - 1].args.data = SampleRequest

\* the technique each notebook demonstrates: the pre-optimized JumpStart
\* configuration, or the configuration kind of its optimization request
NotebookTechnique(n) ==
  CASE n = 1 -> {"lmi-optimized"}
    [] n = 2 -> {"speculative_decoding_config"}
    [] n = 3 -> {"quantization_config"}
    [] n = 4 -> {"compilation_config"}

\* the technique that produced a deployed model
DeployedTechnique(m) ==
  IF m.src = "jumpstart" THEN {m.ref} ELSE jobs[m.job].kinds

\* C13: a run calls deploy at most once and exactly once when it runs to its
\* end, so it creates one endpoint (with one configuration and one model); the
\* deployed model is the published model meta-textgeneration-llama-3-70b
\* optimized with the notebook's own technique, and the four notebooks'
\* techniques differ: four runs, four endpoints, one per technique.
C13_OneEndpointPerRun ==
  /\ Cardinality(CallsOf({"deploy"})) <= 1
  /\ status = "done" => Cardinality(ReturnsOf({"deploy"})) = 1
  /\ Cardinality(endpoints) + Cardinality(ReturnsOf({"delete_endpoint"}))
       = Cardinality(ReturnsOf({"deploy"}))
  /\ Cardinality(endpoint_configs) = Cardinality(endpoints)
  /\ Cardinality(models) <= 1
  /\ \A m \in models :
       /\ m.model_id = "meta-textgeneration-llama-3-70b"
       /\ DeployedTechnique(m) = NotebookTechnique(nb)
  /\ \A a, b \in Notebooks :
       a # b => NotebookTechnique(a) # NotebookTechnique(b)

C13_Witness ==
  /\ nb = 2
  /\ Cardinality(endpoints) = 1
  /\ Cardinality(models) = 1
  /\ ReturnsOf({"predict"}) # {}

\* C14 as stated: every deploy call names the instance type.
C14_EveryDeployNamesInstanceType ==
  \A i \in CallsOf({"deploy"}) : "instance_type" \in DOMAIN log[i].args

\* C14 amended: only the deploy call of notebook 3 names the instance type
\* (ml.g5.12xlarge); the deploy calls of notebooks 1, 2 and 4 name none, and
\* their endpoint runs on the instance type given earlier to
\* set_deployment_config (notebook 1) or to optimize (notebooks 2 and 4).
C14_OnlyNB3NamesInstanceType ==
  \A i \in CallsOf({"deploy"}) :
    /\ "instance_type" \in DOMAIN log[i].args <=> nb = 3
    /\ \A c \in endpoint_configs :
         IF nb = 3
         THEN /\ c.instance_type = log[i].args.instance_type
              /\ c.instance_type = "ml.g5.12xlarge"
         ELSE \E j \in CallsOf({"set_deployment_config", "optimize"}) :
                /\ j < i
                /\ log[j].op = "set_deployment_config" <=> nb = 1
                /\ c.instance_type = log[j].args.instance_type

C14_Witness ==
  /\ nb = 4
  /\ \E c \in endpoint_configs : c.instance_type = "ml.inf2.48xlarge"
  /\ \E i \in CallsOf({"deploy"}) : "instance_type" \notin DOMAIN log[i].args

\* C15: delete_endpoint is called only after delete_model has returned, and
\* it asks for the endpoint configuration to be deleted too; while the
\* delete_model call is in flight the endpoint and its configuration exist;
\* once delete_model has returned the model is gone, and once delete_endpoint
\* has returned the endpoint and its configuration are gone.
C15_ModelDeletedBeforeEndpoint ==
  /\ \A i \in CallsOf({"delete_endpoint"}) :
       /\ ReturnedBefore({"delete_model"}, i)
       /\ log[i].args.delete_endpoint_config = TRUE
  /\ \A i \in CallsOf({"delete_model"}) :
       /\ \A j \in CallsOf({"delete_endpoint"}) : i < j
       /\ i = Len(log) =>
            /\ Cardinality(endpoints) = 1
            /\ Cardinality(endpoint_configs) = 1
            /\ ModelOf(ns["predictor"]) # {}
  /\ ReturnsOf({"delete_model"}) # {} => models = {}
  /\ (ReturnsOf({"delete_model"}) # {} /\ ReturnsOf({"delete_endpoint"}) = {})
       => Cardinality(endpoints) = 1 /\ Cardinality(endpoint_configs) = 1
  /\ ReturnsOf({"delete_endpoint"}) # {} =>
       endpoints = {} /\ endpoint_configs = {}

C15_Witness ==
  /\ Cur.op = "delete_endpoint"
  /\ inflight # {}
  /\ models = {}
  /\ Cardinality(endpoints) = 1
  /\ Cardinality(endpoint_configs) = 1

\* C16: in notebook 2 the optimization request is submitted only after the
\* draft model was downloaded to the local directory and that directory was
\* uploaded to the default bucket under the prefix spec-dec-custom-draft-model;
\* the request's ModelSource is the URI the upload returned followed by one
\* slash.  No other notebook uploads anything.
C16_DraftUploadedBeforeOptimize ==
  /\ nb # 2 => CallsOf({"snapshot_download", "upload_data"}) = {}
  /\ \A u \in CallsOf({"upload_data"}) :
       /\ log[u].args.bucket = DefaultBucket
       /\ log[u].args.key_prefix = "spec-dec-custom-draft-model"
       /\ \E d \in ReturnsOf({"snapshot_download"}) :
            /\ d < u
            /\ log[d - 1].args.local_dir = log[u].args.path
            /\ log[u].args.path \in local_files
  /\ nb = 2 =>
       \A i \in CallsOf({"optimize"}) :
         /\ \E u \in ReturnsOf({"upload_data"}) : u < i
         /\ ns["custom_draft_model_uri"] =
              "s3://" \o DefaultBucket \o "/spec-dec-custom-draft-model"
         /\ ns["custom_draft_model_uri"] \in s3
         /\ DOMAIN log[i].args.speculative_decoding_config = {"ModelSource"}
         /\ log[i].args.speculative_decoding_config.ModelSource =
              ns["custom_draft_model_uri"] \o "/"

C16_Witness ==
  /\ nb = 2
  /\ Len(jobs) = 1
  /\ \E i \in CallsOf({"optimize"}) :
       log[i].args.speculative_decoding_config.ModelSource =
         "s3://" \o DefaultBucket \o "/spec-dec-custom-draft-model/"

----------------------------------------------------------------------------
(* A run in which the deploy cell is run again: the optimized model is     *)
(* deployed several times.                                                 *)

MaxDeploys == 3

\* the cell that holds the deploy statement
DeployCell(n) ==
  CHOOSE c \in 1 .. Len(Cells(n)) :
    \E k \in 1 .. Len(Cells(n)[c]) : Cells(n)[c][k].op = "deploy"

\* the kernel is idle between two cells and the deploy cell, which has run
\* before, is run again
RerunDeployCell ==
  /\ inflight = {}
  /\ status \in {"running", "done"}
  /\ status = "running" => pc[2] = 1
  /\ ReturnsOf({"deploy"}) # {}
  /\ Cardinality(CallsOf({"deploy"})) < MaxDeploys
  /\ pc' = <<DeployCell(nb), 1>>
  /\ status' = "running"
  /\ UNCHANGED <<nb, ns, inflight, log, err, jobs, models, endpoint_configs,
                 endpoints, s3, local_files>>
  /\ UNCHANGED <<others, stackvars>>

RedeployNext ==
  \/ Next
  \/ RerunDeployCell

RedeploySpec == Init /\ [][RedeployNext]_vars

\* C17: in notebook 4, however many times the compiled model is deployed, one
\* optimize call is made and one optimization job exists, a compilation that
\* completed before the first deployment, and every deployed model is the
\* output of that job at the output location the request named.
C17_CompiledOnceDeployedManyTimes ==
  nb = 4 =>
    /\ Cardinality(CallsOf({"optimize"})) <= 1
    /\ Len(jobs) <= 1
    /\ status = "done" => Len(jobs) = 1
    /\ CallsOf({"deploy"}) # {} =>
         /\ Len(jobs) = 1
         /\ jobs[1].kinds = {"compilation_config"}
         /\ jobs[1].state = "Completed"
    /\ \A m \in models :
         /\ m.src = "job"
         /\ m.job = 1
         /\ m.ref = jobs[1].output_path
         /\ m.ref = "s3://" \o DefaultBucket \o "/neuron/"

C17_Witness ==
  /\ nb = 4
  /\ Cardinality(ReturnsOf({"deploy"})) >= 2
  /\ Cardinality(endpoints) >= 2
  /\ Len(jobs) = 1

----------------------------------------------------------------------------
(* Properties of the optimization configurations.                          *)

\* the OverrideEnvironment mappings of a request
OverrideEnvironments(a) ==
  {a[kind].OverrideEnvironment :
     kind \in {c \in {"quantization_config", "compilation_config"} \cap DOMAIN a :
                "OverrideEnvironment" \in DOMAIN a[c]}}

\* C18: in every optimization request a quantization or compilation
\* configuration holds an OverrideEnvironment mapping and nothing else, every
\* value of that mapping is a string (the tensor-parallel degree is "24" and
\* the context length "8192", not numbers), and a speculative decoding
\* configuration holds the draft model's location and nothing else.
C18_ConfigurationsWellFormed ==
  \A i \in CallsOf({"optimize"}) :
    LET a == log[i].args
    IN /\ \A kind \in {"quantization_config", "compilation_config"} \cap DOMAIN a :
            DOMAIN a[kind] = {"OverrideEnvironment"}
       /\ \A env \in OverrideEnvironments(a) :
            /\ DOMAIN env # {}
            /\ \A k \in DOMAIN env : env[k].type = "str"
       /\ "compilation_config" \in DOMAIN a =>
            /\ a.compilation_config.OverrideEnvironment.OPTION_TENSOR_PARALLEL_DEGREE
                 = Str("24")
            /\ a.compilation_config.OverrideEnvironment.OPTION_N_POSITIONS
                 = Str("8192")
       /\ "quantization_config" \in DOMAIN a =>
            a.quantization_config.OverrideEnvironment = [OPTION_QUANTIZE |-> Str("awq")]
       /\ "speculative_decoding_config" \in DOMAIN a =>
            /\ DOMAIN a.speculative_decoding_config = {"ModelSource"}
            /\ a.speculative_decoding_config.ModelSource = ns["draft_uri"]

C18_Witness ==
  /\ nb = 4
  /\ jobs # <<>>
  /\ \E i \in CallsOf({"optimize"}) :
       \E env \in OverrideEnvironments(log[i].args) :
         /\ Cardinality(DOMAIN env) = 6
         /\ env.OPTION_N_POSITIONS.v = "8192"

----------------------------------------------------------------------------
(* Properties of what a notebook reads.                                    *)

\* C19: in a top-to-bottom run in a fresh kernel every name the next
\* statement reads is bound, by an earlier statement of this notebook; and
\* every local directory and storage location a call reads was written
\* earlier in this run: the uploaded directory by snapshot_download, the
\* listed and the draft model's location by upload_data, the deployed
\* artifacts by this run's optimization job.
C19_SelfContained ==
  /\ (status = "running" /\ inflight = {}) => Uses(Cur) \subseteq DOMAIN ns
  /\ \A i \in CallsOf({"upload_data"}) : log[i].args.path \in local_files
  /\ \A i \in CallsOf({"aws_s3_ls"}) :
       \E o \in s3 : log[i].args.uri = o \o "/"
  /\ \A i \in CallsOf({"optimize"}) :
       "speculative_decoding_config" \in DOMAIN log[i].args =>
         \E o \in s3 :
           log[i].args.speculative_decoding_config.ModelSource = o \o "/"
  /\ \A m \in models :
       m.src = "job" =>
         /\ m.job \in 1 .. Len(jobs)
         /\ jobs[m.job].state = "Completed"
         /\ m.ref = jobs[m.job].output_path
         /\ m.ref # "" => m.ref \in s3

C19_Witness ==
  /\ nb = 2
  /\ status = "running"
  /\ inflight = {}
  /\ Cur.op = "optimize"
  /\ {"draft_uri", "gpu_instance_type", "model_builder"} \subseteq Uses(Cur)
  /\ Uses(Cur) \subseteq DOMAIN ns

----------------------------------------------------------------------------
(* Properties of the template's references.                                *)

RECURSIVE References(_)
\* the Ref, Fn::GetAtt and Fn::Sub references of a value
References(e) ==
  CASE e.k = "lit" -> {}
    [] e.k = "ref" -> {[fn |-> "Ref", name |-> e.v]}
    [] e.k = "getatt" -> {[fn |-> "Fn::GetAtt", name |-> e.v]}
    [] e.k = "sub" ->
         {[fn |-> "Fn::Sub", name |-> e.v[i].var] :
            i \in {j \in DOMAIN e.v : DOMAIN e.v[j] = {"var"}}}
    [] e.k = "join" -> UNION {References(e.v[i]) : i \in DOMAIN e.v}

\* every reference of the template, in the resources and in the outputs
TemplateReferences ==
  UNION {UNION {References(TemplateResources[id].Properties[x]) :
                  x \in DOMAIN TemplateResources[id].Properties} :
           id \in DOMAIN TemplateResources}
    \cup UNION {References(TemplateOutputs[o].Value) : o \in DOMAIN TemplateOutputs}

RECURSIVE Reachable(_, _)
\* the resources reached from S in at most n steps along the references
Reachable(S, n) ==
  IF n = 0 THEN S
  ELSE Reachable(S \cup UNION {Deps(x) : x \in S \cap DOMAIN TemplateResources},
                 n - 1)

\* the resources a resource depends on, directly or not
DependsOn(id) == Reachable(Deps(id), Cardinality(DOMAIN TemplateResources))

\* C20: every Ref names a declared parameter or resource and every
\* Fn::GetAtt a declared resource; no resource depends on itself; while the
\* stack is being created some missing resource can always be created, a
\* resource exists only with the resources it refers to (the notebook
\* instance only with the role), and the completed stack has its output, the
\* console URL of the notebook instance.
C20_TemplateConsistent ==
  /\ \A r \in TemplateReferences :
       /\ r.fn = "Ref" =>
            r.name \in DOMAIN TemplateParameters \cup DOMAIN TemplateResources
       /\ r.fn = "Fn::GetAtt" => r.name \in DOMAIN TemplateResources
  /\ \E r \in TemplateReferences : r.fn = "Ref"
  /\ \E r \in TemplateReferences : r.fn = "Fn::GetAtt"
  /\ \A id \in DOMAIN TemplateResources : id \notin DependsOn(id)
  /\ \A id \in DOMAIN resources : Deps(id) \subseteq DOMAIN resources
  /\ "NotebookInstance" \in DOMAIN resources => "Role" \in DOMAIN resources
  /\ (stack_status = "CREATE_IN_PROGRESS"
        /\ DOMAIN resources # DOMAIN TemplateResources) =>
       \E id \in DOMAIN TemplateResources \ DOMAIN resources :
         Deps(id) \subseteq DOMAIN resources
  /\ stack_status = "CREATE_COMPLETE" =>
       /\ DOMAIN resources = DOMAIN TemplateResources
       /\ outputs.SageMakerNotebookURL =
            << "https://console.aws.amazon.com/sagemaker/home?region=us-east-1#/notebook-instances/openNotebook/",
               NotebookName,
               "?view=classic" >>

C20_Witness ==
  /\ stack_status = "CREATE_COMPLETE"
  /\ DOMAIN outputs = {"SageMakerNotebookURL"}
  /\ outputs.SageMakerNotebookURL[2] = DefaultNotebookName
  /\ resources["NotebookInstance"].Properties.RoleArn = RoleArnOf(IAMRoleName)

----------------------------------------------------------------------------
(* Properties of the role's policies.                                      *)

\* the statements of the inline policies of the created role
RoleStatements ==
  UNION {pol.Statement : pol \in resources["Role"].Properties.Policies}

\* C21: every action the statement ReadWriteFromECR allows is an ECR action,
\* and the statement's only resource is the repositories of the stack's
\* account and region.
C21_OnlyEcrActionsOnOwnRepositories ==
  "Role" \in DOMAIN resources =>
    \A st \in RoleStatements :
      st.Sid = "ReadWriteFromECR" =>
        /\ st.Effect = "Allow"
        /\ \A a \in st.Action : a.service = "ecr"
        /\ st.Resource =
             {"arn:aws:ecr:" \o PseudoParameters["AWS::Region"] \o ":" \o
                PseudoParameters["AWS::AccountId"] \o ":repository/*"}

----------------------------------------------------------------------------
(* Properties of a run that fails, and of what the clean-up leaves alone.  *)

\* the run failed at its predict call
PredictRaised ==
  /\ status = "failed"
  /\ Len(log) > 0
  /\ log[Len(log)].ev = "raise"
  /\ log[Len(log)].op = "predict"

\* C22: when predict raises after deploy has returned, the run has stopped at
\* the predict cell, no delete call was issued, and the endpoint, its
\* configuration and its model exist.
C22_FailedPredictLeavesEndpoint ==
  PredictRaised =>
    /\ ReturnsOf({"deploy"}) # {}
    /\ Cur.op = "predict"
    /\ ~Finished(nb, pc)
    /\ CallsOf({"delete_model", "delete_endpoint"}) = {}
    /\ Cardinality(endpoints) = 1
    /\ EndpointOf(ns["predictor"]) = endpoints
    /\ ConfigOf(ns["predictor"]) = endpoint_configs
    /\ ModelOf(ns["predictor"]) = models
    /\ Cardinality(endpoint_configs) = 1
    /\ Cardinality(models) = 1

C22_Witness ==
  /\ PredictRaised
  /\ nb = 3
  /\ \E c \in endpoint_configs : c.instance_type = "ml.g5.12xlarge"

\* C23: no step of a run removes a storage location or a local directory
\* once it is written, and a step of the clean-up cell changes nothing but
\* the models, the endpoint configurations and the endpoints (and the
\* kernel's own position and history): storage, local files, jobs and the
\* namespace stay as they are.
C23_CleanUpFrame ==
  [][/\ s3 \subseteq s3'
     /\ local_files \subseteq local_files'
     /\ (status = "running" /\ Cur.op \in {"delete_model", "delete_endpoint"}) =>
          /\ s3' = s3
          /\ local_files' = local_files
          /\ jobs' = jobs
          /\ ns' = ns
          /\ nb' = nb
          /\ models' \subseteq models
          /\ endpoint_configs' \subseteq endpoint_configs
          /\ endpoints' \subseteq endpoints]_vars

C23_Witness ==
  /\ status = "done"
  /\ nb = 2
  /\ endpoints = {}
  /\ models = {}
  /\ "s3://" \o DefaultBucket \o "/spec-dec-custom-draft-model" \in s3
  /\ NotebookCwd \o "/model_repo" \in local_files

----------------------------------------------------------------------------
(* The cells of a notebook run out of order: whenever the kernel is idle   *)
(* the user may skip ahead to any later cell, or pick any of the cells     *)
(* after the deploy cell (predict, clean-up) again; left alone, the run    *)
(* goes on with the next cell.                                             *)

MaxCellRuns == 2

\* the cells the user picked, in the history
CellRuns == {i \in 1 .. Len(log) : log[i].ev = "run"}

\* the user runs cell c
RunCell ==
  /\ inflight = {}
  /\ status \in {"done", "failed"} \/ pc[2] = 1
  /\ Cardinality(CellRuns) < MaxCellRuns
  /\ \E c \in 1 .. Len(Cells(nb)) :
       /\ c > pc[1] \/ c > DeployCell(nb)
       /\ pc' = <<c, 1>>
       /\ log' = Append(log, [ev |-> "run", line |-> Cells(nb)[c][1].line,
                              op |-> "", args |-> NoArgs, error |-> ""])
  /\ status' = "running"
  /\ err' = ""
  /\ UNCHANGED <<nb, ns, inflight, jobs, models, endpoint_configs, endpoints,
                 s3, local_files>>
  /\ UNCHANGED <<others, stackvars>>

\* the statement reads a name that is not bound: Python raises NameError
\* before anything is called, and the cell ends with the error
NameError ==
  /\ status = "running"
  /\ inflight = {}
  /\ ~(Uses(Cur) \subseteq DOMAIN ns)
  /\ log' = Append(log, Ev("raise", Cur, NoArgs, "NameError"))
  /\ err' = "NameError"
  /\ status' = "failed"
  /\ UNCHANGED <<nb, pc, ns, inflight, jobs, models, endpoint_configs,
                 endpoints, s3, local_files>>
  /\ UNCHANGED <<others, stackvars>>

AnyOrderNext ==
  \/ Next
  \/ RunCell
  \/ NameError

AnyOrderSpec == Init /\ [][AnyOrderNext]_vars

\* C24: when the kernel executes a statement of a cell that comes after the
\* deploy cell (the predict cell, the clean-up cell) and deploy has not
\* returned in this kernel, the cell fails with NameError: no call is issued
\* and no model, endpoint configuration, endpoint, job or storage location
\* changes.
C24_NoPredictorNoCall ==
  [][(/\ status = "running"
      /\ inflight = {}
      /\ pc[1] > DeployCell(nb)
      /\ ReturnsOf({"deploy"}) = {}
      /\ Len(log') = Len(log) + 1
      /\ log'[Len(log')].ev # "run") =>
       /\ "predictor" \notin DOMAIN ns
       /\ log'[Len(log')].ev = "raise"
       /\ log'[Len(log')].error = "NameError"
       /\ err' = "NameError"
       /\ status' = "failed"
       /\ inflight' = {}
       /\ UNCHANGED <<models, endpoint_configs, endpoints, jobs, s3>>]_vars

C24_Witness ==
  /\ status = "failed"
  /\ err = "NameError"
  /\ Cur.op = "delete_model"
  /\ ReturnsOf({"optimize"}) # {}
  /\ ReturnsOf({"deploy"}) = {}
  /\ endpoints = {}

----------------------------------------------------------------------------
(* Notebooks open side by side on the notebook instance: each has a kernel *)
(* of its own, with its own namespace; the default bucket, the platform    *)
(* and the instance's files are shared. One kernel is followed at a time;  *)
(* the other one is taken up when this one has ended, or between two cells *)
(* when the next cell uses storage (the order of cells that use no storage *)
(* makes no difference to what is stored).                                 *)

MaxSwitches == 2

KernelEvents == {i \in 1 .. Len(log) : log[i].ev = "kernel"}

\* the kernel that is set aside
Suspended == [nb |-> nb, pc |-> pc, status |-> status, ns |-> ns, err |-> err]

StorageOps == {"upload_data", "optimize", "deploy"}

BetweenCells ==
  /\ inflight = {}
  /\ \/ status \in {"done", "failed"}
     \/ /\ status = "running"
        /\ pc[2] = 1
        /\ \E k \in DOMAIN Cells(nb)[pc[1]] :
             Cells(nb)[pc[1]][k].op \in StorageOps

\* a second notebook is opened next to the first one, before any cell is
\* run: a fresh kernel starts at its first cell
OpenKernel ==
  /\ others = <<>>
  /\ log = <<>>
  /\ \E n \in Notebooks :
       /\ nb' = n
       /\ log' = Append(log, [ev |-> "kernel", line |-> 0, op |-> "",
                              args |-> NoArgs, error |-> "",
                              from |-> nb, nb |-> n])
  /\ others' = <<Suspended>>
  /\ pc' = <<1, 1>>
  /\ status' = "running"
  /\ ns' = <<>>
  /\ err' = ""
  /\ UNCHANGED <<inflight, jobs, models, endpoint_configs, endpoints, s3,
                 local_files>>
  /\ UNCHANGED stackvars

\* the other notebook's kernel is taken up where it was left
SwitchKernel ==
  /\ others # <<>>
  /\ others[1].status = "running"
  /\ BetweenCells
  /\ Cardinality(KernelEvents) <= MaxSwitches
  /\ nb' = others[1].nb
  /\ pc' = others[1].pc
  /\ status' = others[1].status
  /\ ns' = others[1].ns
  /\ err' = others[1].err
  /\ others' = <<Suspended>>
  /\ log' = Append(log, [ev |-> "kernel", line |-> 0, op |-> "",
                         args |-> NoArgs, error |-> "",
                         from |-> nb, nb |-> others[1].nb])
  /\ UNCHANGED <<inflight, jobs, models, endpoint_configs, endpoints, s3,
                 local_files>>
  /\ UNCHANGED stackvars

KernelsNext ==
  \/ Next
  \/ OpenKernel
  \/ SwitchKernel

KernelsSpec == Init /\ [][KernelsNext]_vars

\* the notebook whose kernel logged event i
NotebookOf(i) == log[i].nb

\* the storage locations call i writes to
Stores(i) ==
  IF log[i].op = "upload_data"
  THEN {"s3://" \o log[i].args.bucket \o "/" \o log[i].args.key_prefix}
  ELSE IF log[i].op = "optimize" /\ "output_path" \in DOMAIN log[i].args
       THEN {log[i].args.output_path}
       ELSE {}

\* the storage locations call i reads from: the draft model of an
\* optimization, the artifacts of the model a deployment created
Loads(i) ==
  IF /\ log[i].op = "optimize"
     /\ "speculative_decoding_config" \in DOMAIN log[i].args
  THEN {log[i].args.speculative_decoding_config.ModelSource}
  ELSE IF log[i].op = "deploy"
       THEN {m.ref : m \in {x \in models : x.name = i /\ x.src = "job"
                                            /\ x.ref # ""}}
       ELSE {}

\* two locations name the same prefix, with or without its final slash
SameLocation(a, b) == a = b \/ a \o "/" = b \/ a = b \o "/"

StorageCalls == CallsOf(StorageOps)

\* the prefixes of the default bucket a notebook is said to write to
PrefixesOf(n) ==
  IF n = 2 THEN {"s3://" \o DefaultBucket \o "/spec-dec-custom-draft-model"}
  ELSE IF n = 3 THEN {"s3://" \o DefaultBucket \o "/awq-quantization/"}
  ELSE IF n = 4 THEN {"s3://" \o DefaultBucket \o "/neuron/"}
  ELSE {}

\* C25: with notebooks run one after another or interleaved in separate
\* kernels, every object in the bucket was written by a call of a notebook,
\* each notebook writes only under its own prefix, and no call of one
\* notebook writes to a location that a call of another notebook writes to
\* or reads from.
C25_NotebooksShareNoObject ==
  /\ \A loc \in s3 : \E i \in StorageCalls : loc \in Stores(i)
  /\ \A i \in StorageCalls : Stores(i) \subseteq PrefixesOf(NotebookOf(i))
  /\ \A i \in StorageCalls : \A j \in StorageCalls :
       NotebookOf(i) # NotebookOf(j) =>
         \A a \in Stores(i) : \A b \in Stores(j) \cup Loads(j) :
           ~SameLocation(a, b)

C25_Witness ==
  /\ others # <<>>
  /\ nb = 3
  /\ others[1].nb = 4
  /\ status = "done"
  /\ others[1].status = "running"
  /\ Cardinality(KernelEvents) > 1
  /\ "s3://" \o DefaultBucket \o "/awq-quantization/" \in s3
  /\ "s3://" \o DefaultBucket \o "/neuron/" \in s3

----------------------------------------------------------------------------
(* Properties of the optimization requests.                                *)

\* the kind of configuration a notebook's optimization is about
KindOfNotebook(n) ==
  IF n = 2 THEN {"speculative_decoding_config"}
  ELSE IF n = 3 THEN {"quantization_config"}
  ELSE IF n = 4 THEN {"compilation_config"}
  ELSE {}

\* C26: every optimize call passes exactly one of the three kinds of
\* configuration, the one of its notebook (speculative decoding in notebook
\* 2, quantization in notebook 3, compilation in notebook 4), and the job it
\* submits carries that kind alone.
C26_OneConfigKindPerRequest ==
  /\ \A i \in CallsOf({"optimize"}) :
       /\ Cardinality(ConfigKinds \cap DOMAIN log[i].args) = 1
       /\ ConfigKinds \cap DOMAIN log[i].args = KindOfNotebook(nb)
  /\ \A j \in 1 .. Len(jobs) :
       /\ Cardinality(jobs[j].kinds) = 1
       /\ jobs[j].kinds = KindOfNotebook(nb)

C26_Witness ==
  /\ nb = 3
  /\ ReturnsOf({"optimize"}) # {}
  /\ Len(jobs) = 1
  /\ jobs[1].kinds = {"quantization_config"}
  /\ jobs[1].state = "Completed"

----------------------------------------------------------------------------
(* Properties of the role's trust policy and of the parameters' defaults.  *)

TrustStatements == resources["Role"].Properties.AssumeRolePolicyDocument.Statement

\* C27: whatever the parameter values, the created role's trust policy lets
\* the SageMaker service assume the role (sts:AssumeRole) and names no other
\* principal in any statement that allows something.
C27_OnlySageMakerAssumesRole ==
  "Role" \in DOMAIN resources =>
    /\ \E st \in TrustStatements :
         /\ st.Effect = "Allow"
         /\ Action("sts", "AssumeRole") \in st.Action
         /\ "Service" \in DOMAIN st.Principal
         /\ "sagemaker.amazonaws.com" \in st.Principal.Service
    /\ \A st \in TrustStatements :
         st.Effect = "Allow" =>
           /\ DOMAIN st.Principal = {"Service"}
           /\ st.Principal.Service = {"sagemaker.amazonaws.com"}
           /\ st.Action = {Action("sts", "AssumeRole")}

C27_Witness ==
  /\ stack_status = "CREATE_COMPLETE"
  /\ "Role" \in DOMAIN resources
  /\ params.SageMakerIAMRole # DefaultIAMRole
  /\ params.SageMakerNotebookName # DefaultNotebookName

\* the parameter values of a stack created with no overrides
Defaults == [p \in DOMAIN TemplateParameters |-> TemplateParameters[p].Default]

\* C28: the declared defaults satisfy the constraints declared with them (the
\* default notebook name is 1 to 63 characters long and matches the allowed
\* pattern), so a stack created with no overrides is never rejected by the
\* validation of its parameters.
C28_DefaultsPassValidation ==
  /\ \A p \in DOMAIN TemplateParameters :
       ValidParam(TemplateParameters[p], Defaults[p])
  /\ Len(Defaults.SageMakerNotebookName) >= NotebookNameMinLength
  /\ Len(Defaults.SageMakerNotebookName) <= NotebookNameMaxLength
  /\ Matches(NotebookNamePattern, Defaults.SageMakerNotebookName)
  /\ params = Defaults => stack_status # "VALIDATION_FAILED"

C28_Witness ==
  /\ params = Defaults
  /\ stack_status = "CREATE_COMPLETE"
  /\ DOMAIN resources = DOMAIN TemplateResources

============================================================================
